---- MODULE Spec2Model ----
(***************************************************************************)
(* A model of fetchStats.py: credential resolution (getGithubToken), the   *)
(* paginated repository listing (getUserPublicRepos), the per-repository   *)
(* language fetch (getRepoLanguages) and main's aggregation and report.    *)
(*                                                                         *)
(* Python strings on which the code performs string operations (strip,     *)
(* truthiness) are sequences of one-character strings; names that are only *)
(* passed around are TLA+ strings.  A Python value that may be None is a    *)
(* record [some, val].                                                     *)
(***************************************************************************)
EXTENDS Integers, Sequences, FiniteSets

VARIABLES
    pc,              \* position of the run
    tokIn,           \* environment seen by a stand-alone getGithubToken call
    tokOut,          \* its outcome
    githubToken,     \* main: githubToken (None until resolved)
    userName,        \* main: userName
    prompts,         \* number of input() prompts shown
    requests,        \* every HTTP request issued so far, in order
    responses,       \* every listing response received so far, in order
    repos,           \* getUserPublicRepos: repos
    pageNum,         \* getUserPublicRepos: pageNum
    repositories,    \* main: repositories
    idx,             \* main: number of repositories the for loop has taken
    fetched,         \* what getRepoLanguages returned for each of them
    repoCount,       \* main: repoCount
    totalLanguageBreakdown, \* main: the defaultdict, as <<lang, bytes>> pairs in insertion order
    output           \* what main printed, in order

vars == <<pc, tokIn, tokOut, githubToken, userName, prompts, requests, responses,
          repos, pageNum, repositories, idx, fetched, repoCount,
          totalLanguageBreakdown, output>>

----------------------------------------------------------------------------
(* Python values *)

None == [some |-> FALSE, val |-> <<>>]
Some(v) == [some |-> TRUE, val |-> v]

\* Python truthiness of an optional string: not None and not ''
Truthy(o) == o.some /\ o.val # <<>>

Whitespace == {" ", "\n"}

RECURSIVE LStrip(_)
LStrip(s) == IF s # <<>> /\ Head(s) \in Whitespace THEN LStrip(Tail(s)) ELSE s

RECURSIVE RStrip(_)
RStrip(s) ==
    IF s # <<>> /\ s[Len(s)] \in Whitespace THEN RStrip(SubSeq(s, 1, Len(s) - 1)) ELSE s

\* str.strip()
Strip(s) == RStrip(LStrip(s))

RECURSIVE SeqsUpTo(_, _)
SeqsUpTo(S, n) ==
    IF n = 0 THEN {<<>>}
    ELSE LET shorter == SeqsUpTo(S, n - 1)
         IN  shorter \cup {Append(s, x) : s \in {t \in shorter : Len(t) = n - 1}, x \in S}

----------------------------------------------------------------------------
(* getGithubToken *)

MaxTokLen == 2

TokenChars == {"a", " ", "\n"}
EnvValues == {None, Some(<<>>), Some(<<"e">>), Some(<<" ">>)}

TokenPath == <<"t">>
PathValues == {None, Some(<<>>), Some(TokenPath)}
DefaultUsernames == {None, Some(<<>>), Some(<<"d">>)}

\* config.json: absent, present but open() fails, not JSON, JSON but not an
\* object, or an object with the two recognised keys (None when the key is absent)
ConfigKinds == {"absent", "unreadable", "malformed", "notobject", "object"}
ConfigFile(k, p, u) == [kind |-> k, githubTokenPath |-> p, defaultUsername |-> u]
ConfigFiles ==
    {ConfigFile(k, None, None) : k \in ConfigKinds \ {"object"}}
        \cup {ConfigFile("object", p, u) : p \in PathValues, u \in DefaultUsernames}

\* the file at TokenPath: absent, present but unreadable, or readable
TokenFile(k, c) == [kind |-> k, contents |-> c]
TokenFilesOf(n) ==
    {TokenFile("absent", <<>>), TokenFile("unreadable", <<>>)}
        \cup {TokenFile("file", c) : c \in SeqsUpTo(TokenChars, n)}

TokenReturn(t, calls, msgs) ==
    [kind |-> "return", token |-> t, exc |-> "", calls |-> calls, printed |-> msgs]
TokenRaise(e, calls, msgs) ==
    [kind |-> "raise", token |-> <<>>, exc |-> e, calls |-> calls, printed |-> msgs]

\* os.path.exists(tokenPath): only TokenPath can name an existing file
PathExists(p, tf) == p = TokenPath /\ tf.kind # "absent"

EnvTokenUsable_BlankRejected(e) == e.some /\ Strip(e.val) # <<>>
\* token = os.getenv('GITHUB_TOKEN'); if token:
EnvTokenUsable(e) == Truthy(e)

\* what lines 27-29 do: "ok", or the class of the exception they raise
ConfigLoadResult(cfg) ==
    CASE cfg.kind = "unreadable" -> "OSError"
      [] cfg.kind = "malformed"  -> "JSONDecodeError"
      [] cfg.kind = "notobject"  -> "AttributeError"
      [] OTHER                   -> "ok"

\* the handlers of the outer try: except json.JSONDecodeError, except Exception
ConfigHandlerCatches(exc) == TRUE

TokenFromFile_Untrimmed(tf) == tf.contents
\* tokenFile.read().strip()
TokenFromFile(tf) == Strip(tf.contents)

getGithubToken(e, cfg, tf) ==
    LET missing(calls, msgs) == TokenRaise("ValueError", calls, msgs)
    IN
    IF EnvTokenUsable(e) THEN TokenReturn(e.val, <<>>, <<"UsingEnv">>)
    ELSE IF cfg.kind = "absent" THEN missing(<<"exists(config)">>, <<>>)
    ELSE
      LET c1 == <<"exists(config)", "open(config)">>
          load == ConfigLoadResult(cfg)
      IN
      IF load # "ok" THEN
        IF ConfigHandlerCatches(load)
        THEN missing(c1, <<IF load = "JSONDecodeError" THEN "ConfigNotJson" ELSE "ConfigError">>)
        ELSE TokenRaise(load, c1, <<>>)
      ELSE
        LET tokenPath == cfg.githubTokenPath IN
        IF ~Truthy(tokenPath) THEN missing(c1, <<"TokenPathNotFound">>)
        ELSE
          LET c2 == Append(c1, "exists(token)") IN
          IF ~PathExists(tokenPath.val, tf) THEN missing(c2, <<"TokenPathNotFound">>)
          ELSE
            LET c3 == Append(c2, "open(token)") IN
            IF tf.kind = "unreadable" THEN missing(c3, <<"TokenFileError">>)
            ELSE
              LET token == TokenFromFile(tf) IN
              IF token # <<>> THEN TokenReturn(token, c3, <<"UsingFile">>)
              ELSE missing(c3, <<>>)

TokenInputs == [env : EnvValues, config : ConfigFiles, tokenFile : TokenFilesOf(MaxTokLen)]

NoTokIn == [env |-> None, config |-> ConfigFile("absent", None, None),
            tokenFile |-> TokenFile("absent", <<>>)]
NoTokOut == [kind |-> "none", token |-> <<>>, exc |-> "", calls |-> <<>>, printed |-> <<>>]

----------------------------------------------------------------------------
(* getDefaultUsername and the username prompt *)

\* config.get('defaultUsername'), or None when the file is absent or reading it raises
getDefaultUsername(cfg) == IF cfg.kind = "object" THEN cfg.defaultUsername ELSE None

\* what the user may type at the prompt
TypedNames == {<<>>, <<" ">>, <<"u">>, <<" ", "u">>}

\* lines 155-162: the username main ends up with
ResolveUserName(cfg, typed) ==
    LET defaultUsername == getDefaultUsername(cfg)
        entered == Strip(typed)
    IN  IF Truthy(defaultUsername) /\ entered = <<>> THEN defaultUsername.val ELSE entered

----------------------------------------------------------------------------
(* HTTP *)

perPage == 100
OkStatus == 200
ErrorStatuses == {404}

\* a repository object of the listing; a key the API left out is flagged absent
\* (complete: it has both 'name' and owner.login)
Repo(n) == [complete |-> TRUE, name |-> n, owner |-> "o"]
IncompleteRepo == [complete |-> FALSE, name |-> "", owner |-> ""]
RepoRecords == {Repo("r1"), Repo("r2"), IncompleteRepo}

ReposRequest(user, page, token) ==
    [kind |-> "repos", owner |-> user, name |-> "", page |-> page,
     per_page |-> perPage, token |-> token]
LanguagesRequest(owner, name, token) ==
    [kind |-> "languages", owner |-> <<owner>>, name |-> name, page |-> 0,
     per_page |-> 0, token |-> token]

\* a response: its status, whether its body parses as JSON, and the parsed body
Response(status, json, body) == [status |-> status, json |-> json, body |-> body]

----------------------------------------------------------------------------
(* getUserPublicRepos *)

MaxPages == 2
MaxPerPage == 2
MainMaxPages == 1
MainMaxPerPage == 1

\* requests.get raised instead of returning a response
Raised == Response(0, FALSE, <<>>)

\* what a listing request may meet: a success whose body is a list of at most
\* perPageBound repositories or is not JSON, an error status, or no response
ListingOutcomes(perPageBound) ==
    {Response(OkStatus, TRUE, items) : items \in SeqsUpTo(RepoRecords, perPageBound)}
        \cup {Response(st, TRUE, <<>>) : st \in ErrorStatuses}
        \cup {Response(OkStatus, FALSE, <<>>), Raised}

\* the responses that end the while loop (break at line 82 or 87)
StopsListing(resp) == resp.status # OkStatus \/ resp.body = <<>>

ExtendRepos_Overwrite(rs, currentRepos) == currentRepos
\* repos.extend(currentRepos)
ExtendRepos(rs, currentRepos) == rs \o currentRepos

----------------------------------------------------------------------------
(* getRepoLanguages and the aggregation *)

MaxRepos == 2
MaxCount == 1

Langs == {"A", "a"}
ReportLangs == {"A", "B", "C"}

HasKey(m, lang) == \E i \in 1..Len(m) : m[i][1] = lang
Keys(m) == {m[i][1] : i \in 1..Len(m)}
\* m[lang], 0 for a missing key
Get(m, lang) == IF HasKey(m, lang) THEN (CHOOSE p \in {m[i] : i \in 1..Len(m)} : p[1] = lang)[2] ELSE 0

\* JSON objects of language name to byte count, keys in document order
LangMaps(langs, maxCount) ==
    {m \in SeqsUpTo(langs \X (0..maxCount), Cardinality(langs)) :
        \A i, j \in 1..Len(m) : m[i][1] = m[j][1] => i = j}

\* what a languages request may meet: any status with a JSON object as body, a
\* success whose body is not JSON, or no response
LangOutcomes(maps) ==
    {Response(st, TRUE, m) : st \in {OkStatus} \cup ErrorStatuses, m \in maps}
        \cup {Response(OkStatus, FALSE, <<>>), Raised}

getRepoLanguages_BodyOnError(resp) == resp.body
\* lines 111-116: response.json() on 200, {} otherwise
getRepoLanguages(resp) == IF resp.status = OkStatus THEN resp.body ELSE <<>>

AddBytes_Overwrite(agg, lang, bytesCount) ==
    IF HasKey(agg, lang)
    THEN [i \in 1..Len(agg) |-> IF agg[i][1] = lang THEN <<lang, bytesCount>> ELSE agg[i]]
    ELSE Append(agg, <<lang, bytesCount>>)
\* totalLanguageBreakdown[lang] += bytesCount on a defaultdict(int): a missing
\* key is inserted last with 0, then added to
AddBytes(agg, lang, bytesCount) ==
    IF HasKey(agg, lang)
    THEN [i \in 1..Len(agg) |-> IF agg[i][1] = lang THEN <<lang, agg[i][2] + bytesCount>> ELSE agg[i]]
    ELSE Append(agg, <<lang, 0 + bytesCount>>)

RECURSIVE AddLanguages(_, _)
\* for lang, bytesCount in languages.items(): ...
AddLanguages(agg, languages) ==
    IF languages = <<>> THEN agg
    ELSE AddLanguages(AddBytes(agg, Head(languages)[1], Head(languages)[2]), Tail(languages))

----------------------------------------------------------------------------
(* the report, lines 189-218 *)

KB == 1024
MB == 1024 * 1024
GB == 1024 * 1024 * 1024
HalfWord == 2 ^ 15

RECURSIVE SumValues(_)
\* sum(totalLanguageBreakdown.values())
SumValues(m) == IF m = <<>> THEN 0 ELSE Head(m)[2] + SumValues(Tail(m))

RECURSIVE InsertDesc_TiesFirst(_, _)
InsertDesc_TiesFirst(sorted, item) ==
    IF sorted = <<>> THEN <<item>>
    ELSE IF Head(sorted)[2] > item[2]
         THEN <<Head(sorted)>> \o InsertDesc_TiesFirst(Tail(sorted), item)
         ELSE <<item>> \o sorted

RECURSIVE InsertDesc(_, _)
\* place item behind every element whose count is not smaller: equal counts
\* keep their original order, as sorted(..., reverse=True) keeps them
InsertDesc(sorted, item) ==
    IF sorted = <<>> THEN <<item>>
    ELSE IF Head(sorted)[2] >= item[2]
         THEN <<Head(sorted)>> \o InsertDesc(Tail(sorted), item)
         ELSE <<item>> \o sorted

RECURSIVE SortedLanguages(_)
\* sorted(totalLanguageBreakdown.items(), key=lambda item: item[1], reverse=True)
SortedLanguages(m) ==
    IF m = <<>> THEN <<>>
    ELSE InsertDesc(SortedLanguages(SubSeq(m, 1, Len(m) - 1)), m[Len(m)])

\* 100 * r / d for 0 <= r < d, d one of KB, MB, GB, as <<quotient, remainder>>;
\* for d = GB the product is formed in two 15-bit halves to stay within 32 bits
Times100Over(r, d) ==
    IF d <= MB THEN <<(100 * r) \div d, (100 * r) % d>>
    ELSE LET hi == 100 * (r \div HalfWord)
             lo == 100 * (r % HalfWord)
             z  == hi + (lo \div HalfWord)
             y  == lo % HalfWord
             dh == d \div HalfWord
         IN  <<z \div dh, (z % dh) * HalfWord + y>>

\* f"{bytesCount / d:.2f}": the quotient is exact in binary floating point (d is a
\* power of two) and the format rounds it to the nearest hundredth, ties to even
TwoDecimals(bytesCount, d) ==
    LET q  == bytesCount \div d
        t  == Times100Over(bytesCount % d, d)
        up == t[2] > d \div 2 \/ (t[2] = d \div 2 /\ t[1] % 2 = 1)
        h  == IF up THEN t[1] + 1 ELSE t[1]
    IN  IF h = 100 THEN <<q + 1, 0>> ELSE <<q, h>>

Size(unit, whole, frac, decimals) ==
    [unit |-> unit, whole |-> whole, frac |-> frac, decimals |-> decimals]
NoSize == Size("", 0, 0, 0)

FormatSize_Inclusive(bytesCount) ==
    IF bytesCount <= KB THEN Size("B", bytesCount, 0, 0)
    ELSE IF bytesCount <= MB
         THEN LET v == TwoDecimals(bytesCount, KB) IN Size("KB", v[1], v[2], 2)
    ELSE IF bytesCount <= GB
         THEN LET v == TwoDecimals(bytesCount, MB) IN Size("MB", v[1], v[2], 2)
    ELSE LET v == TwoDecimals(bytesCount, GB) IN Size("GB", v[1], v[2], 2)
\* lines 208-215
FormatSize(bytesCount) ==
    IF bytesCount < KB THEN Size("B", bytesCount, 0, 0)
    ELSE IF bytesCount < MB
         THEN LET v == TwoDecimals(bytesCount, KB) IN Size("KB", v[1], v[2], 2)
    ELSE IF bytesCount < GB
         THEN LET v == TwoDecimals(bytesCount, MB) IN Size("MB", v[1], v[2], 2)
    ELSE LET v == TwoDecimals(bytesCount, GB) IN Size("GB", v[1], v[2], 2)

\* one printed item: a message (num carries the count a message mentions) or a
\* language line; a line keeps the operands num / den of its percentage division
Msg(tag, n) == [tag |-> tag, lang |-> "", num |-> n, den |-> 0, size |-> NoSize]
Line(lang, bytesCount, totalBytes) ==
    [tag |-> "Line", lang |-> lang, num |-> bytesCount, den |-> totalBytes,
     size |-> FormatSize(bytesCount)]

\* if not totalLanguageBreakdown:
NoLanguageData(agg) == agg = <<>>

NoCodeBytes_Unchecked(totalBytes) == FALSE
\* if totalBytes == 0:
NoCodeBytes(totalBytes) == totalBytes = 0

ReportOutput(agg, count) ==
    IF NoLanguageData(agg) THEN <<Msg("NoLanguageData", 0)>>
    ELSE LET totalBytes == SumValues(agg)
             sortedLanguages == SortedLanguages(agg)
         IN  IF NoCodeBytes(totalBytes) THEN <<Msg("Header", count), Msg("NoCodeBytes", 0)>>
             ELSE <<Msg("Header", count)>>
                    \o [i \in 1..Len(sortedLanguages) |->
                          Line(sortedLanguages[i][1], sortedLanguages[i][2], totalBytes)]
                    \o <<Msg("Separator", 0)>>

----------------------------------------------------------------------------
(* the run of main *)

EmptyUsername_Unchecked(name) == FALSE
\* if not userName:
EmptyUsername(name) == name = <<>>

\* the environments a whole run is checked with
MainTokenInputs ==
    {i \in TokenInputs : i.env \in {None, Some(<<"e">>)} /\ Len(i.tokenFile.contents) <= 1}
MainLangMaps == LangMaps({"A"}, MaxCount)

Emit(items) == output' = output \o items

\* main, lines 136-166 and the entry of getUserPublicRepos, lines 65-74
MainStart ==
    /\ pc = "main"
    /\ \E i \in MainTokenInputs, typed \in TypedNames :
         LET r == getGithubToken(i.env, i.config, i.tokenFile)
             name == ResolveUserName(i.config, typed)
         IN  IF r.kind = "raise"
             THEN /\ pc' = IF r.exc = "ValueError" THEN "done" ELSE "crashed"
                  /\ IF r.exc = "ValueError"
                     THEN Emit(<<Msg("CredentialMissing", 0), Msg("Remediation", 0)>>)
                     ELSE UNCHANGED output
                  /\ UNCHANGED <<githubToken, userName, prompts, repos, pageNum>>
             ELSE /\ githubToken' = Some(r.token)
                  /\ prompts' = prompts + 1
                  /\ userName' = name
                  /\ IF EmptyUsername(name)
                     THEN /\ pc' = "done"
                          /\ Emit(<<Msg("EmptyUsername", 0)>>)
                          /\ UNCHANGED <<repos, pageNum>>
                     ELSE /\ pc' = "listing"
                          /\ Emit(<<Msg("Fetching", 0)>>)
                          /\ repos' = <<>>
                          /\ pageNum' = 1
    /\ UNCHANGED <<tokIn, tokOut, requests, responses, repositories, idx, fetched,
                   repoCount, totalLanguageBreakdown>>

\* one iteration of the while loop of getUserPublicRepos, lines 75-87; an
\* iteration that breaks also returns to main, lines 88-89 and 168-177
ListPage(perPageBound, maxPages) ==
    /\ pc = "listing"
    /\ \E resp \in ListingOutcomes(perPageBound) :
         /\ pageNum > maxPages => (resp = Raised \/ ~resp.json \/ StopsListing(resp))
         /\ requests' = Append(requests, ReposRequest(userName, pageNum, githubToken.val))
         /\ responses' = IF resp = Raised THEN responses ELSE Append(responses, resp)
         /\ IF resp = Raised \/ (resp.status = OkStatus /\ ~resp.json)
            THEN /\ pc' = "crashed"
                 /\ UNCHANGED <<repos, pageNum, repositories, output,
                                idx, repoCount, totalLanguageBreakdown>>
            ELSE IF StopsListing(resp)
            THEN /\ repositories' = repos
                 /\ IF repos = <<>>
                    THEN /\ pc' = "done"
                         /\ Emit(<<Msg("Found", 0), Msg("NoRepos", 0)>>)
                         /\ UNCHANGED <<idx, repoCount, totalLanguageBreakdown>>
                    ELSE /\ pc' = "loop"
                         /\ Emit(<<Msg("Found", Len(repos)), Msg("Analyzing", 0)>>)
                         /\ idx' = 0
                         /\ repoCount' = 0
                         /\ totalLanguageBreakdown' = <<>>
                 /\ UNCHANGED <<repos, pageNum>>
            ELSE /\ repos' = ExtendRepos(repos, resp.body)
                 /\ pageNum' = pageNum + 1
                 /\ pc' = "listing"
                 /\ UNCHANGED <<repositories, output, idx, repoCount,
                                totalLanguageBreakdown>>
    /\ UNCHANGED <<tokIn, tokOut, githubToken, userName, prompts, fetched>>

Fetched(status, languages) == [status |-> status, languages |-> languages]

\* one iteration of the for loop of main, lines 178-187, with the call of
\* getRepoLanguages
FetchLanguages(maps) ==
    /\ pc = "loop"
    /\ idx < Len(repositories)
    /\ LET repo == repositories[idx + 1] IN
       IF ~repo.complete
       THEN /\ pc' = "crashed"
            /\ UNCHANGED <<requests, fetched, idx, repoCount, totalLanguageBreakdown>>
       ELSE \E resp \in LangOutcomes(maps) :
            /\ requests' = Append(requests,
                                  LanguagesRequest(repo.owner, repo.name, githubToken.val))
            /\ IF resp = Raised \/ (resp.status = OkStatus /\ ~resp.json)
               THEN /\ pc' = "crashed"
                    /\ UNCHANGED <<fetched, idx, repoCount, totalLanguageBreakdown>>
               ELSE LET languages == getRepoLanguages(resp) IN
                    /\ fetched' = Append(fetched, Fetched(resp.status, languages))
                    /\ idx' = idx + 1
                    /\ IF languages # <<>>
                       THEN /\ repoCount' = repoCount + 1
                            /\ totalLanguageBreakdown' =
                                   AddLanguages(totalLanguageBreakdown, languages)
                       ELSE UNCHANGED <<repoCount, totalLanguageBreakdown>>
                    /\ pc' = IF idx + 1 = Len(repositories) THEN "report" ELSE "loop"
    /\ UNCHANGED <<tokIn, tokOut, githubToken, userName, prompts, responses, repos,
                   pageNum, repositories, output>>

\* main, lines 189-218
Report ==
    /\ pc = "report"
    /\ Emit(ReportOutput(totalLanguageBreakdown, repoCount))
    /\ pc' = "done"
    /\ UNCHANGED <<tokIn, tokOut, githubToken, userName, prompts, requests, responses,
                   repos, pageNum, repositories, idx, fetched, repoCount,
                   totalLanguageBreakdown>>

\* a call of getGithubToken on its own
CallGetGithubToken ==
    /\ pc = "tok"
    /\ tokOut' = getGithubToken(tokIn.env, tokIn.config, tokIn.tokenFile)
    /\ pc' = "tokdone"
    /\ UNCHANGED <<tokIn, githubToken, userName, prompts, requests, responses, repos,
                   pageNum, repositories, idx, fetched, repoCount,
                   totalLanguageBreakdown, output>>

----------------------------------------------------------------------------
(* specifications *)

\* the start of main
Init ==
    /\ pc = "main"
    /\ tokIn = NoTokIn
    /\ tokOut = NoTokOut
    /\ githubToken = None
    /\ userName = <<>>
    /\ prompts = 0
    /\ requests = <<>>
    /\ responses = <<>>
    /\ repos = <<>>
    /\ pageNum = 1
    /\ repositories = <<>>
    /\ idx = 0
    /\ fetched = <<>>
    /\ repoCount = 0
    /\ totalLanguageBreakdown = <<>>
    /\ output = <<>>

Next ==
    \/ MainStart
    \/ ListPage(MainMaxPerPage, MainMaxPages)
    \/ FetchLanguages(MainLangMaps)
    \/ Report

Spec == Init /\ [][Next]_vars

\* getGithubToken called on its own in every environment
InitTok ==
    /\ pc = "tok"
    /\ tokIn \in TokenInputs
    /\ tokOut = NoTokOut
    /\ githubToken = None
    /\ userName = <<>>
    /\ prompts = 0
    /\ requests = <<>>
    /\ responses = <<>>
    /\ repos = <<>>
    /\ pageNum = 1
    /\ repositories = <<>>
    /\ idx = 0
    /\ fetched = <<>>
    /\ repoCount = 0
    /\ totalLanguageBreakdown = <<>>
    /\ output = <<>>

NextTok == CallGetGithubToken

SpecTok == InitTok /\ [][NextTok]_vars

\* main at the call of getUserPublicRepos (line 168): the token came from the
\* environment variable and the username was typed
InitList ==
    /\ pc = "listing"
    /\ tokIn = NoTokIn
    /\ tokOut = NoTokOut
    /\ githubToken = Some(<<"e">>)
    /\ userName \in {<<"u">>, <<"d">>}
    /\ prompts = 1
    /\ requests = <<>>
    /\ responses = <<>>
    /\ repos = <<>>
    /\ pageNum = 1
    /\ repositories = <<>>
    /\ idx = 0
    /\ fetched = <<>>
    /\ repoCount = 0
    /\ totalLanguageBreakdown = <<>>
    /\ output = <<Msg("Fetching", 0)>>

NextList == ListPage(MaxPerPage, MaxPages)

SpecList == InitList /\ [][NextList]_vars

\* main after a listing of one page followed by an empty page
AfterListing(listed) ==
    /\ tokIn = NoTokIn
    /\ tokOut = NoTokOut
    /\ githubToken = Some(<<"e">>)
    /\ userName = <<"u">>
    /\ prompts = 1
    /\ responses = <<Response(OkStatus, TRUE, listed), Response(OkStatus, TRUE, <<>>)>>
    /\ repos = listed
    /\ pageNum = 2
    /\ repositories = listed
    /\ output = <<Msg("Fetching", 0), Msg("Found", Len(listed)), Msg("Analyzing", 0)>>

ListingRequests == <<ReposRequest(<<"u">>, 1, <<"e">>), ReposRequest(<<"u">>, 2, <<"e">>)>>

\* main at the head of the for loop (line 178) for every listing of at most
\* MaxRepos repositories
InitAgg ==
    /\ pc = "loop"
    /\ \E listed \in SeqsUpTo(RepoRecords, MaxRepos) \ {<<>>} : AfterListing(listed)
    /\ requests = ListingRequests
    /\ idx = 0
    /\ fetched = <<>>
    /\ repoCount = 0
    /\ totalLanguageBreakdown = <<>>

NextAgg ==
    \/ FetchLanguages(LangMaps(Langs, MaxCount))
    \/ Report

SpecAgg == InitAgg /\ [][NextAgg]_vars

FmtWindow == 130

\* byte counts around every unit threshold, and counts whose two-decimal form
\* is a tie or rounds up into the next whole number
FmtInputs ==
    {b \in UNION {(t - FmtWindow)..(t + FmtWindow) : t \in {0, KB, MB, GB}} : b >= 0}
        \cup {MB + MB \div 8, MB + 3 * (MB \div 8), GB + GB \div 8, GB + 3 * (GB \div 8),
              (GB - 1) + GB}

\* the language maps the fetches of a run returned: one or two small maps, or
\* one map of a single language with a count of FmtInputs
ReportRuns ==
    LET small == LangMaps(ReportLangs, MaxCount)
    IN  {<<m>> : m \in small} \cup {<<m1, m2>> : m1 \in small, m2 \in small}
            \cup {<<<< <<"A", b>> >>>> : b \in FmtInputs}

RECURSIVE Aggregate(_)
\* totalLanguageBreakdown after the for loop has taken the maps ms
Aggregate(ms) ==
    IF ms = <<>> THEN <<>>
    ELSE LET before == Aggregate(SubSeq(ms, 1, Len(ms) - 1))
             languages == ms[Len(ms)]
         IN  IF languages # <<>> THEN AddLanguages(before, languages) ELSE before

\* main at line 189, after the for loop fetched the maps of a run of ReportRuns
InitReport ==
    /\ pc = "report"
    /\ \E ms \in ReportRuns :
         LET listed == SubSeq(<<Repo("r1"), Repo("r2")>>, 1, Len(ms)) IN
         /\ AfterListing(listed)
         /\ requests = ListingRequests
                \o [i \in 1..Len(ms) |-> LanguagesRequest("o", listed[i].name, <<"e">>)]
         /\ idx = Len(ms)
         /\ fetched = [i \in 1..Len(ms) |-> Fetched(OkStatus, ms[i])]
         /\ repoCount = Cardinality({i \in 1..Len(ms) : ms[i] # <<>>})
         /\ totalLanguageBreakdown = Aggregate(ms)

NextReport == Report

SpecReport == InitReport /\ [][NextReport]_vars

----------------------------------------------------------------------------
(* properties *)

Printed(tag) == \E i \in 1..Len(output) : output[i].tag = tag
IsLine(item) == item.tag = "Line"
ReportLines == SelectSeq(output, IsLine)
Returned == pc \in {"loop", "report", "done"}

EmptySuccess(resp) == resp.status = OkStatus /\ resp.json /\ resp.body = <<>>
NonSuccess(resp) == resp.status # OkStatus
NonEmptySuccess(resp) == resp.status = OkStatus /\ resp.json /\ resp.body # <<>>

RECURSIVE ConcatBodies(_)
ConcatBodies(rs) == IF rs = <<>> THEN <<>> ELSE Head(rs).body \o ConcatBodies(Tail(rs))

\* C1: getUserPublicRepos requests pages 1, 2, 3, ... in order, each once; every
\* response before the last one is a non-empty success; and once it has
\* returned, the last response is an empty success or a non-success status, no
\* request follows it, and the result is the concatenation, in response order,
\* of the pages before it.
C1_Pagination ==
    /\ \A i \in 1..Len(requests) : requests[i].kind = "repos" /\ requests[i].page = i
    /\ Len(responses) <= Len(requests) /\ Len(requests) <= Len(responses) + 1
    /\ \A i \in 1..(Len(responses) - 1) : NonEmptySuccess(responses[i])
    /\ Returned =>
         LET k == Len(responses) IN
         /\ k >= 1 /\ Len(requests) = k
         /\ EmptySuccess(responses[k]) \/ NonSuccess(responses[k])
         /\ repositories = ConcatBodies(SubSeq(responses, 1, k - 1))

\* two full pages, then an error status on page 3: the four repositories of
\* pages 1 and 2 are returned
C1_Witness ==
    /\ Returned
    /\ Len(requests) = 3
    /\ Len(responses[1].body) = 2 /\ Len(responses[2].body) = 2
    /\ NonSuccess(responses[3])
    /\ Len(repositories) = 4
    /\ repositories[1] # repositories[2]

\* C2: no failure propagates out of main as an uncaught fault.
C2_NoUncaughtFault == pc # "crashed"

\* C3: no HTTP request is issued unless a token has been resolved and a
\* non-empty username obtained, and every request carries them; a run that
\* reports the missing credential has neither prompted nor requested, and a run
\* that reports the empty username has not requested.
C3_NoRequestWithoutCredentials ==
    /\ requests # <<>> =>
         /\ Truthy(githubToken) /\ userName # <<>>
         /\ \A i \in 1..Len(requests) :
              /\ requests[i].token = githubToken.val
              /\ requests[i].kind = "repos" => requests[i].owner = userName
    /\ Printed("CredentialMissing") =>
         /\ Printed("Remediation") /\ pc = "done"
         /\ prompts = 0 /\ requests = <<>> /\ ~githubToken.some
    /\ Printed("EmptyUsername") => pc = "done" /\ requests = <<>> /\ userName = <<>>
    /\ pc \in {"listing", "loop", "report"} => Truthy(githubToken) /\ userName # <<>>

\* a run that resolved a token, prompted, got a username and has issued a request
C3_Witness ==
    /\ requests # <<>> /\ prompts = 1
    /\ githubToken = Some(<<"a">>) /\ userName = <<"d">>

\* C4 as stated: whenever GITHUB_TOKEN is set, getGithubToken returns its value
\* without touching either file.
C4_SetImpliesReturned ==
    (pc = "tokdone" /\ tokIn.env.some) =>
        /\ tokOut.kind = "return" /\ tokOut.token = tokIn.env.val
        /\ tokOut.calls = <<>>

\* C4: whenever GITHUB_TOKEN is set to a non-empty value, getGithubToken returns
\* that value, whatever the settings file and the token file hold, and without
\* testing or opening either file.
C4_EnvPreferred ==
    (pc = "tokdone" /\ tokIn.env.some /\ tokIn.env.val # <<>>) =>
        /\ tokOut.kind = "return" /\ tokOut.token = tokIn.env.val
        /\ tokOut.calls = <<>>

\* the variable is set while the settings file names a token file that holds
\* another, valid token
C4_Witness ==
    /\ pc = "tokdone"
    /\ tokIn.env = Some(<<" ">>)
    /\ tokIn.config.kind = "object" /\ tokIn.config.githubTokenPath = Some(TokenPath)
    /\ tokIn.tokenFile = TokenFile("file", <<"a">>)
    /\ tokOut.token = <<" ">>

AllBlank(s) == \A i \in 1..Len(s) : s[i] \in Whitespace
\* t is s without its leading and trailing whitespace
IsTrimOf(t, s) ==
    IF AllBlank(s) THEN t = <<>>
    ELSE \E i, j \in 1..Len(s) :
           /\ i <= j /\ t = SubSeq(s, i, j)
           /\ s[i] \notin Whitespace /\ s[j] \notin Whitespace
           /\ AllBlank(SubSeq(s, 1, i - 1)) /\ AllBlank(SubSeq(s, j + 1, Len(s)))

\* C5: when the environment variable provides no token, getGithubToken returns
\* the trimmed contents of the token file exactly when the settings file is a
\* JSON object naming an existing, readable token file whose contents are not
\* blank; in every other case it raises ValueError, and it never returns an
\* empty token.
C5_FileTokenOrValueError ==
    (pc = "tokdone" /\ ~(tokIn.env.some /\ tokIn.env.val # <<>>)) =>
        LET cfg == tokIn.config
            tf == tokIn.tokenFile
            usable ==
                /\ cfg.kind = "object"
                /\ cfg.githubTokenPath.some /\ cfg.githubTokenPath.val = TokenPath
                /\ tf.kind = "file" /\ ~AllBlank(tf.contents)
        IN  IF usable
            THEN /\ tokOut.kind = "return"
                 /\ tokOut.token # <<>> /\ IsTrimOf(tokOut.token, tf.contents)
            ELSE tokOut.kind = "raise" /\ tokOut.exc = "ValueError"

\* the token file holds "a\n" and the token returned is "a"
C5_Witness ==
    /\ pc = "tokdone"
    /\ tokIn.env = None
    /\ tokIn.tokenFile = TokenFile("file", <<"a", "\n">>)
    /\ tokOut.kind = "return" /\ tokOut.token = <<"a">>

LanguageRequests == SelectSeq(requests, LAMBDA r : r.kind = "languages")
NonEmptyFetches == {i \in 1..Len(fetched) : fetched[i].languages # <<>>}

\* C6: a fetch that met a non-success status returned the empty mapping; the
\* language fetches issued so far are those of the first repositories of the
\* listing, one each, in listing order; repoCount is the number of fetches that
\* returned a non-empty mapping; and when the loop has ended every listed
\* repository has been fetched, those after a failed or empty fetch included.
C6_OneFetchPerRepoCountsNonEmpty ==
    /\ \A i \in 1..Len(fetched) :
         fetched[i].status # OkStatus => fetched[i].languages = <<>>
    /\ idx = Len(fetched)
    /\ Len(LanguageRequests) \in {idx, idx + 1}
    /\ Len(LanguageRequests) <= Len(repositories)
    /\ \A i \in 1..Len(LanguageRequests) :
         /\ repositories[i].complete
         /\ LanguageRequests[i].name = repositories[i].name
         /\ LanguageRequests[i].owner = <<repositories[i].owner>>
    /\ repoCount = Cardinality(NonEmptyFetches)
    /\ pc \in {"report", "done"} =>
         Len(LanguageRequests) = Len(repositories) /\ idx = Len(repositories)

\* the first fetch failed, the second returned data and was counted
C6_Witness ==
    /\ pc = "report"
    /\ Len(fetched) = 2
    /\ fetched[1].status # OkStatus
    /\ fetched[2].languages # <<>>
    /\ repoCount = 1
    /\ LanguageRequests[1].name # LanguageRequests[2].name

RECURSIVE SumOver(_, _)
\* the sum of lang's byte counts over the maps fetched
SumOver(fs, lang) ==
    IF fs = <<>> THEN 0 ELSE Get(Head(fs).languages, lang) + SumOver(Tail(fs), lang)

\* C7: after each repository the loop has taken, the keys of the aggregate are
\* exactly the language names of the non-empty maps fetched so far, each
\* once, and each value is the sum of that language's byte counts over those
\* maps; "A" and "a" are different languages.
C7_AggregateIsSum ==
    /\ \A i, j \in 1..Len(totalLanguageBreakdown) :
         totalLanguageBreakdown[i][1] = totalLanguageBreakdown[j][1] => i = j
    /\ Keys(totalLanguageBreakdown) =
         UNION {Keys(fetched[i].languages) : i \in 1..Len(fetched)}
    /\ \A lang \in Langs \cup Keys(totalLanguageBreakdown) :
         Get(totalLanguageBreakdown, lang) = SumOver(fetched, lang)

\* two maps that share "A" and differ in "a"
C7_Witness ==
    /\ pc = "report"
    /\ Len(fetched) = 2
    /\ Get(fetched[1].languages, "A") = 1 /\ ~HasKey(fetched[1].languages, "a")
    /\ Get(fetched[2].languages, "A") = 1 /\ Get(fetched[2].languages, "a") = 1
    /\ totalLanguageBreakdown = << <<"A", 2>>, <<"a", 1>> >>

\* C8: no language line is printed from a division by a zero total: when every
\* fetch of the run returned an empty mapping the report is the "no language
\* data" message alone, and when the aggregate is non-empty but sums to zero the
\* report ends with the "no code bytes" message, in both cases without a line.
C8_NoDivisionByZero ==
    /\ \A i \in 1..Len(output) : IsLine(output[i]) => output[i].den # 0
    /\ (pc = "done" /\ Printed("Analyzing")) =>
         /\ NonEmptyFetches = {} =>
              /\ output[Len(output)] = Msg("NoLanguageData", 0)
              /\ ~Printed("Header") /\ ReportLines = <<>>
         /\ (totalLanguageBreakdown # <<>> /\ SumValues(totalLanguageBreakdown) = 0) =>
              /\ output[Len(output)] = Msg("NoCodeBytes", 0)
              /\ ReportLines = <<>>
         /\ ReportLines # <<>> =>
              \A i \in 1..Len(ReportLines) :
                  ReportLines[i].den = SumValues(totalLanguageBreakdown)

\* a run whose only data is a language of zero bytes
C8_Witness ==
    /\ pc = "done"
    /\ NonEmptyFetches # {}
    /\ totalLanguageBreakdown # <<>>
    /\ SumValues(totalLanguageBreakdown) = 0
    /\ Printed("NoCodeBytes")

RECURSIVE KeysInOrder(_)
\* the language names of the fetched maps, in the order the loop met them
KeysInOrder(fs) ==
    IF fs = <<>> THEN <<>>
    ELSE [i \in 1..Len(Head(fs).languages) |-> Head(fs).languages[i][1]]
            \o KeysInOrder(Tail(fs))

FirstSeen(lang) ==
    LET ks == KeysInOrder(fetched)
    IN  CHOOSE k \in 1..Len(ks) : ks[k] = lang /\ \A n \in 1..(k - 1) : ks[n] # lang

\* C9: the report has one line for every language of the aggregate, carrying
\* its cumulative count, in non-increasing order of count, and languages with
\* equal counts appear in the order the run first met them; this fixes the
\* sequence of lines as a function of the sequence of maps fetched.
C9_SortedTiesFirstSeen ==
    (pc = "done" /\ Printed("Separator")) =>
        LET ls == ReportLines IN
        /\ Len(ls) = Len(totalLanguageBreakdown)
        /\ \A lang \in Keys(totalLanguageBreakdown) :
             \E i \in 1..Len(ls) :
                /\ ls[i].lang = lang /\ ls[i].num = Get(totalLanguageBreakdown, lang)
                /\ \A j \in 1..Len(ls) : ls[j].lang = lang => j = i
        /\ \A i, j \in 1..Len(ls) :
             i < j =>
                /\ ls[i].num >= ls[j].num
                /\ ls[i].num = ls[j].num => FirstSeen(ls[i].lang) < FirstSeen(ls[j].lang)

\* {A:1, C:2, B:2} with C met before B: C and B precede A, C before B
C9_Witness ==
    /\ pc = "done"
    /\ Len(ReportLines) = 3
    /\ ReportLines[1].lang = "C" /\ ReportLines[1].num = 2
    /\ ReportLines[2].lang = "B" /\ ReportLines[2].num = 2
    /\ ReportLines[3].lang = "A" /\ ReportLines[3].num = 1
    /\ FirstSeen("A") < FirstSeen("C")

\* size is b / d rounded to the nearest hundredth; for d = GB the comparison is
\* made in units of 1024 bytes, with the remainder rounded outwards
NearestHundredth(size, b, d) ==
    LET s  == IF d = GB THEN KB ELSE 1
        d2 == d \div s
        lo == (b % d) \div s
        hi == ((b % d) + s - 1) \div s
        v  == 100 * (size.whole - b \div d) + size.frac
    IN  /\ size.frac \in 0..99
        /\ v \in 0..100
        /\ 2 * (v * d2 - 100 * hi) <= d2
        /\ 2 * (100 * lo - v * d2) <= d2

\* C10: every line prints its count with the unit the binary thresholds select,
\* upper bounds exclusive: below 1024 the integer count in B, below 1024^2 the
\* count over 1024 in KB, below 1024^3 the count over 1024^2 in MB, otherwise
\* the count over 1024^3 in GB, each quotient with two decimals; 1023 is
\* "1023 B", 1024 "1.00 KB", 1048576 "1.00 MB" and 1073741824 "1.00 GB".
C10_SizeUnits ==
    \A i \in 1..Len(output) :
        IsLine(output[i]) =>
            LET b == output[i].num
                size == output[i].size
            IN  /\ b < 1024 => size = Size("B", b, 0, 0)
                /\ (1024 <= b /\ b < 1048576) =>
                     size.unit = "KB" /\ size.decimals = 2 /\ NearestHundredth(size, b, 1024)
                /\ (1048576 <= b /\ b < 1073741824) =>
                     size.unit = "MB" /\ size.decimals = 2
                        /\ NearestHundredth(size, b, 1048576)
                /\ 1073741824 <= b =>
                     size.unit = "GB" /\ size.decimals = 2
                        /\ NearestHundredth(size, b, 1073741824)
                /\ b = 1023 => size = Size("B", 1023, 0, 0)
                /\ b = 1024 => size = Size("KB", 1, 0, 2)
                /\ b = 1048576 => size = Size("MB", 1, 0, 2)
                /\ b = 1073741824 => size = Size("GB", 1, 0, 2)

\* a line for exactly 1024^3 bytes, printed as 1.00 GB
C10_Witness ==
    /\ pc = "done"
    /\ \E i \in 1..Len(output) :
         /\ IsLine(output[i]) /\ output[i].num = 1073741824
         /\ output[i].size = Size("GB", 1, 0, 2)

====
